---- MODULE Spec2Model ----
(***************************************************************************)
(* Model of process_packages.py: the cache scan that resolves the highest  *)
(* version of every package, the archive reader, the manifest metadata     *)
(* extractor, the package loop of main and the batched Parquet export.     *)
(*                                                                         *)
(* Strings are sequences of one-character strings, so that the regular     *)
(* expressions and the string conversions of the program are computed and  *)
(* not assumed.                                                            *)
(***************************************************************************)
EXTENDS Integers, Sequences, FiniteSets, TLC

\* ------------------------------------------------------------------ bounds
MaxDirs == 3
MaxArchives == 2
MaxEntries == 2
MaxBatch == 3

\* ------------------------------------------------------- character classes
Digits == {"0", "1", "2", "3", "4", "5", "6", "7", "8", "9"}

LowerLetters ==
    {"a", "b", "c", "d", "e", "f", "g", "h", "i", "j", "k", "l", "m",
     "n", "o", "p", "q", "r", "s", "t", "u", "v", "w", "x", "y", "z"}

UpperLetters ==
    {"A", "B", "C", "D", "E", "F", "G", "H", "I", "J", "K", "L", "M",
     "N", "O", "P", "Q", "R", "S", "T", "U", "V", "W", "X", "Y", "Z"}

Letters == LowerLetters \cup UpperLetters

\* [a-zA-Z0-9\._\-] of the name group and of the suffix group
NameChars == Letters \cup Digits \cup {".", "_", "-"}

\* [0-9a-zA-Z-] of a semantic-version identifier
SemverIdChars == Letters \cup Digits \cup {"-"}

\* The characters of SemverIdChars in code-point order (Python compares
\* strings by code point).
AsciiOrder ==
    <<"-",
      "0", "1", "2", "3", "4", "5", "6", "7", "8", "9",
      "A", "B", "C", "D", "E", "F", "G", "H", "I", "J", "K", "L", "M",
      "N", "O", "P", "Q", "R", "S", "T", "U", "V", "W", "X", "Y", "Z",
      "a", "b", "c", "d", "e", "f", "g", "h", "i", "j", "k", "l", "m",
      "n", "o", "p", "q", "r", "s", "t", "u", "v", "w", "x", "y", "z">>

Ord(c) == CHOOSE i \in 1..Len(AsciiOrder) : AsciiOrder[i] = c

\* ------------------------------------------------------------ string tools
SetMax(S) == CHOOSE x \in S : \A y \in S : y <= x

SetMin(S) == CHOOSE x \in S : \A y \in S : x <= y

\* Index of the last character of the longest run of digits that starts at
\* position i of s; i - 1 when s has no digit at i.
DigitRunEnd(s, i) ==
    IF i > Len(s) \/ s[i] \notin Digits THEN i - 1
    ELSE SetMax({k \in i..Len(s) : \A m \in i..k : s[m] \in Digits})

DigitValue(c) == Ord(c) - 2

RECURSIVE ToInt(_)
\* int() of a non-empty string of digits
ToInt(ds) ==
    IF Len(ds) = 0 THEN 0
    ELSE 10 * ToInt(SubSeq(ds, 1, Len(ds) - 1)) + DigitValue(ds[Len(ds)])

RECURSIVE IntToStr(_)
\* str() of a natural number
IntToStr(n) ==
    IF n < 10 THEN <<AsciiOrder[n + 2]>>
    ELSE IntToStr(n \div 10) \o <<AsciiOrder[(n % 10) + 2]>>

RECURSIVE SplitOn(_, _)
\* s.split(c): the pieces of s between the occurrences of the character c
SplitOn(s, c) ==
    LET Cut(i) ==
            <<SubSeq(s, 1, i - 1)>> \o SplitOn(SubSeq(s, i + 1, Len(s)), c)
    IN  IF \A i \in 1..Len(s) : s[i] # c THEN <<s>>
        ELSE Cut(SetMin({i \in 1..Len(s) : s[i] = c}))

\* -1, 0 or 1 as a is less than, equal to or greater than b
CmpInt(a, b) == IF a < b THEN -1 ELSE IF a > b THEN 1 ELSE 0

RECURSIVE CmpStr(_, _)
\* Python's ordering of two strings: by code point, a proper prefix first
CmpStr(a, b) ==
    IF Len(a) = 0 /\ Len(b) = 0 THEN 0
    ELSE IF Len(a) = 0 THEN -1
    ELSE IF Len(b) = 0 THEN 1
    ELSE IF Ord(a[1]) # Ord(b[1]) THEN CmpInt(Ord(a[1]), Ord(b[1]))
    ELSE CmpStr(Tail(a), Tail(b))

IsAllDigits(s) == Len(s) > 0 /\ \A i \in 1..Len(s) : s[i] \in Digits

\* ---------------------------------------------- PKG_VERSION_RE (directory)
NoMatch == [ok |-> FALSE]

\* Where the optional group \.[0-9]+ ends when it is tried after position e
\* of r: e itself when no dot and digit follow.
GroupEnd(r, e) ==
    IF e + 2 <= Len(r) /\ r[e + 1] = "." /\ r[e + 2] \in Digits
    THEN DigitRunEnd(r, e + 2)
    ELSE e

\* The part of PKG_VERSION_RE after the name and its dot, matched against
\* the whole of r: v? major (.minor)? (.patch)? suffix? $.  The digit groups
\* are greedy and what follows a digit run is never a digit, so each group
\* takes its whole run; a group that did not take part is <<>> (None).
MatchVersionPart(r) ==
    LET SuffixOk(suffix) ==
            \/ suffix = <<>>
            \/ /\ suffix[1] \in {"~", "+", "-"}
               /\ \A k \in 2..Len(suffix) : suffix[k] \in NameChars
        Groups(p0, e1, e2, e3) ==
            IF e1 >= p0 /\ SuffixOk(SubSeq(r, e3 + 1, Len(r)))
            THEN [ok |-> TRUE,
                  major |-> SubSeq(r, p0, e1),
                  minor |-> SubSeq(r, e1 + 2, e2),
                  patch |-> SubSeq(r, e2 + 2, e3),
                  suffix |-> SubSeq(r, e3 + 1, Len(r))]
            ELSE NoMatch
        AfterMinor(p0, e1, e2) ==
            Groups(p0, e1, e2, IF e2 > e1 THEN GroupEnd(r, e2) ELSE e2)
        AfterMajor(p0, e1) == AfterMinor(p0, e1, GroupEnd(r, e1))
        AfterPrefix(p0) == AfterMajor(p0, DigitRunEnd(r, p0))
    IN  AfterPrefix(IF Len(r) >= 1 /\ r[1] = "v" THEN 2 ELSE 1)

\* NameEnds with [._-] in the place of the dot after the name
NameEndsAnySeparator(dirname) ==
    {i \in 1..(Len(dirname) - 1) :
        /\ \A k \in 1..i : dirname[k] \in NameChars
        /\ dirname[i + 1] \in {".", "_", "-"}
        /\ MatchVersionPart(SubSeq(dirname, i + 2, Len(dirname))).ok}

\* The positions i at which PKG_VERSION_RE can end the name group: the name
\* is dirname[1..i], a dot follows, and the rest matches the version part.
NameEnds(dirname) ==
    {i \in 1..(Len(dirname) - 1) :
        /\ \A k \in 1..i : dirname[k] \in NameChars
        /\ dirname[i + 1] = "."
        /\ MatchVersionPart(SubSeq(dirname, i + 2, Len(dirname))).ok}

\* PKG_VERSION_RE.match(dirname): the name group is non-greedy, so the match
\* found is the one with the shortest name.
PkgVersionMatch(dirname) ==
    LET Groups(i, v) ==
            [ok |-> TRUE, name |-> SubSeq(dirname, 1, i),
             major |-> v.major, minor |-> v.minor, patch |-> v.patch,
             suffix |-> v.suffix]
        MatchAt(i) ==
            Groups(i, MatchVersionPart(SubSeq(dirname, i + 2, Len(dirname))))
        Shortest(ends) == IF ends = {} THEN NoMatch ELSE MatchAt(SetMin(ends))
    IN  Shortest(NameEnds(dirname))

\* version_str_for_parse: missing minor and patch become "0", a suffix that
\* begins with ~ has it replaced by -.
VersionStrForParse(m) ==
    LET minor == IF m.minor = <<>> THEN <<"0">> ELSE m.minor
        patch == IF m.patch = <<>> THEN <<"0">> ELSE m.patch
        base == m.major \o <<".">> \o minor \o <<".">> \o patch
    IN  IF m.suffix # <<>> /\ m.suffix[1] = "~"
        THEN base \o <<"-">> \o Tail(m.suffix)
        ELSE base \o m.suffix

\* ------------------------------------------------------ semver.VersionInfo
ParseError == [ok |-> FALSE]

\* 0|[1-9]\d* : a number without a leading zero
IsNumericId(s) == IsAllDigits(s) /\ (Len(s) = 1 \/ s[1] # "0")

\* One dot-separated identifier of a pre-release: a number without a leading
\* zero, or identifier characters with at least one non-digit.
IsPrereleaseId(s) ==
    /\ Len(s) > 0
    /\ \A i \in 1..Len(s) : s[i] \in SemverIdChars
    /\ (IsAllDigits(s) => IsNumericId(s))

\* One dot-separated identifier of the build metadata
IsBuildId(s) == Len(s) > 0 /\ \A i \in 1..Len(s) : s[i] \in SemverIdChars

\* Every dot-separated identifier of s is one of a pre-release
AllPrereleaseIds(s) ==
    LET parts == SplitOn(s, ".")
    IN  \A i \in 1..Len(parts) : IsPrereleaseId(parts[i])

\* Every dot-separated identifier of s is one of a build
AllBuildIds(s) ==
    LET parts == SplitOn(s, ".")
    IN  \A i \in 1..Len(parts) : IsBuildId(parts[i])

\* The position of the first + of rest, Len(rest) + 1 when it has none
FirstPlus(rest) ==
    IF \A i \in 1..Len(rest) : rest[i] # "+" THEN Len(rest) + 1
    ELSE SetMin({i \in 1..Len(rest) : rest[i] = "+"})

\* semver.VersionInfo.parse(s): major.minor.patch[-prerelease][+build], or
\* ParseError where the library raises ValueError.
SemverParse(s) ==
    LET Parsed(e1, e2, e3, pre, build) ==
            [ok |-> TRUE,
             major |-> ToInt(SubSeq(s, 1, e1)),
             minor |-> ToInt(SubSeq(s, e1 + 2, e2)),
             patch |-> ToInt(SubSeq(s, e2 + 2, e3)),
             prerelease |-> pre,
             build |-> build]
        \* rest is what follows the patch, cut the position of its first +
        \* (past its end when it has none)
        Tail2(e1, e2, e3, rest, cut) ==
            IF /\ (rest # <<>> => rest[1] \in {"-", "+"})
               /\ (rest # <<>> /\ rest[1] = "-" =>
                      AllPrereleaseIds(SubSeq(rest, 2, cut - 1)))
               /\ (rest # <<>> /\ rest[1] = "+" => cut = 1)
               /\ (cut <= Len(rest) =>
                      AllBuildIds(SubSeq(rest, cut + 1, Len(rest))))
            THEN Parsed(e1, e2, e3,
                        IF rest # <<>> /\ rest[1] = "-"
                        THEN SubSeq(rest, 2, cut - 1) ELSE <<>>,
                        SubSeq(rest, cut + 1, Len(rest)))
            ELSE ParseError
        Tail1(e1, e2, e3, rest) == Tail2(e1, e2, e3, rest, FirstPlus(rest))
        Core(e1, e2, e3) ==
            IF /\ e1 >= 1
               /\ e1 + 1 <= Len(s) /\ s[e1 + 1] = "."
               /\ e2 >= e1 + 2
               /\ e2 + 1 <= Len(s) /\ s[e2 + 1] = "."
               /\ e3 >= e2 + 2
               /\ IsNumericId(SubSeq(s, 1, e1))
               /\ IsNumericId(SubSeq(s, e1 + 2, e2))
               /\ IsNumericId(SubSeq(s, e2 + 2, e3))
            THEN Tail1(e1, e2, e3, SubSeq(s, e3 + 1, Len(s)))
            ELSE ParseError
        Minor(e1, e2) == Core(e1, e2, DigitRunEnd(s, e2 + 2))
        Major(e1) == Minor(e1, DigitRunEnd(s, e1 + 2))
    IN  Major(DigitRunEnd(s, 1))

\* str(version): the normalized semantic-version string
VersionStr(v) ==
    IntToStr(v.major) \o <<".">> \o IntToStr(v.minor) \o <<".">>
        \o IntToStr(v.patch)
        \o (IF v.prerelease = <<>> THEN <<>> ELSE <<"-">> \o v.prerelease)
        \o (IF v.build = <<>> THEN <<>> ELSE <<"+">> \o v.build)

\* One pair of pre-release identifiers: numbers by value, a number below a
\* word, words as strings.
CmpPrereleaseTag(a, b) ==
    IF IsAllDigits(a) /\ IsAllDigits(b) THEN CmpInt(ToInt(a), ToInt(b))
    ELSE IF IsAllDigits(a) THEN -1
    ELSE IF IsAllDigits(b) THEN 1
    ELSE CmpStr(a, b)

RECURSIVE CmpTags(_, _)
\* The first difference of the zipped identifier lists, 0 when one list is a
\* prefix of the other.
CmpTags(as, bs) ==
    LET Result(c) == IF c # 0 THEN c ELSE CmpTags(Tail(as), Tail(bs))
    IN  IF as = <<>> \/ bs = <<>> THEN 0
        ELSE Result(CmpPrereleaseTag(as[1], bs[1]))

\* semver's natural comparison of two pre-release strings ("" for None)
NatCmp(a, b) ==
    LET Result(c) == IF c # 0 THEN c ELSE CmpInt(Len(a), Len(b))
    IN  Result(CmpTags(SplitOn(a, "."), SplitOn(b, ".")))

\* VersionInfo.compare: major, minor, patch, then the pre-release, a version
\* without pre-release above the same version with one; build is ignored.
SemverCompare(v, w) ==
    LET Prerelease(rccmp) ==
            IF rccmp = 0 THEN 0
            ELSE IF v.prerelease = <<>> THEN 1
            ELSE IF w.prerelease = <<>> THEN -1
            ELSE rccmp
    IN  IF v.major # w.major THEN CmpInt(v.major, w.major)
        ELSE IF v.minor # w.minor THEN CmpInt(v.minor, w.minor)
        ELSE IF v.patch # w.patch THEN CmpInt(v.patch, w.patch)
        ELSE Prerelease(NatCmp(v.prerelease, w.prerelease))

\* version > other
VersionGreater(v, w) == SemverCompare(v, w) > 0

\* --------------------------------------------------------- str operations
StartsWith(s, p) == Len(s) >= Len(p) /\ SubSeq(s, 1, Len(p)) = p

EndsWith(s, p) ==
    Len(s) >= Len(p) /\ SubSeq(s, Len(s) - Len(p) + 1, Len(s)) = p

Whitespace == {" ", "\t"}

\* s with every leading and trailing character of the set cs removed
\* (str.strip)
StripChars(s, cs) ==
    LET Kept(keep) ==
            IF keep = {} THEN <<>> ELSE SubSeq(s, SetMin(keep), SetMax(keep))
    IN  Kept({i \in 1..Len(s) : s[i] \notin cs})

\* s with every leading character of the set cs removed (str.lstrip)
LStripChars(s, cs) ==
    LET Kept(keep) ==
            IF keep = {} THEN <<>> ELSE SubSeq(s, SetMin(keep), Len(s))
    IN  Kept({i \in 1..Len(s) : s[i] \notin cs})

\* s.split(":", 1)[1]: what follows the first colon of s
AfterFirstColon(s) ==
    SubSeq(s, SetMin({i \in 1..Len(s) : s[i] = ":"}) + 1, Len(s))

\* The position of the last occurrence of the character c in p, 0 when it
\* has none (p.rfind(c), counted from 1)
LastIndex(p, c) ==
    IF \A i \in 1..Len(p) : p[i] # c THEN 0
    ELSE SetMax({i \in 1..Len(p) : p[i] = c})

\* os.path.basename(p): what follows the last slash
Basename(p) == SubSeq(p, LastIndex(p, "/") + 1, Len(p))

\* os.path.splitext(p)[1]: from the last dot of the base name on, unless
\* only dots precede that dot in the base name.
SplitExt(p) ==
    LET Ext(sepIndex, dotIndex) ==
            IF /\ dotIndex > sepIndex
               /\ \E k \in (sepIndex + 1)..(dotIndex - 1) : p[k] # "."
            THEN SubSeq(p, dotIndex, Len(p))
            ELSE <<>>
    IN  Ext(LastIndex(p, "/"), LastIndex(p, "."))

\* ----------------------------------------------------------- the archives
Dune == <<"d", "u", "n", "e">>

Opam == <<"o", "p", "a", "m">>

\* file_extensions of process_archive_file when the caller gives none
DefaultExtensions ==
    {<<"m", "l">>, <<"m", "l", "i">>, Dune, <<"h">>, <<"c">>, Opam}

\* The extensions extract_metadata_from_archive asks for: ('opam',)
OpamExtensions == {Opam}

\* archive_type of process_archive_file, from the end of the path
ArchiveType(path) ==
    IF EndsWith(path, <<".", "z", "i", "p">>) THEN "zip"
    ELSE IF \/ EndsWith(path, <<".", "t", "a", "r", ".", "g", "z">>)
            \/ EndsWith(path, <<".", "t", "g", "z">>)
            \/ EndsWith(path, <<".", "t", "a", "r", ".", "b", "z", "2">>)
            \/ EndsWith(path, <<".", "t", "b", "z">>)
         THEN "tar"
    ELSE "unsupported"

\* ZipInfo.is_dir(): the entry's name ends with a slash
ZipIsDir(entry) == EndsWith(entry.path, <<"/">>)

\* TarIsFile that passes over directories only
TarIsNotDir(entry) == entry.etype # "dir"

\* TarInfo.isfile(): the member is a regular file
TarIsFile(entry) == entry.etype = "file"

\* ext of an entry: the extension without its dots in front, "dune" for an
\* entry whose base name is dune.
EntryExt(path) ==
    IF Basename(path) = Dune THEN Dune
    ELSE LStripChars(SplitExt(path), {"."})

RECURSIVE JoinEscaped(_)
\* The lines of a byte string as repr() shows them: on one line, each
\* newline as the two characters \n.
JoinEscaped(lines) ==
    IF lines = <<>> THEN <<>>
    ELSE IF Len(lines) = 1 THEN lines[1]
    ELSE lines[1] \o <<"\\", "n">> \o JoinEscaped(Tail(lines))

\* str(content) of undecodable bytes: the one line b'...'
BytesRepr(data) == <<<<"b", "'">> \o JoinEscaped(data.lines) \o <<"'">>>>

\* content.decode('utf-8'), and str(content) where that raises
\* UnicodeDecodeError; the text is its sequence of lines.
DecodeContent(data) == IF data.utf8 THEN data.lines ELSE BytesRepr(data)

\* Whether the loop of process_archive_file looks at the entry at all
EntryIsVisited(atype, entry) ==
    IF atype = "zip" THEN ~ZipIsDir(entry) ELSE TarIsFile(entry)

RECURSIVE YieldEntriesAbortOnError(_, _, _)
\* YieldEntries in which the first entry whose read raises ends the loop
YieldEntriesAbortOnError(atype, entries, file_extensions) ==
    LET Rest(e, ext, matched) ==
            IF matched /\ ~e.readable THEN <<>>
            ELSE (IF matched
                  THEN <<[file_type |-> ext, file_path |-> e.path,
                          content |-> DecodeContent(e.data)]>>
                  ELSE <<>>)
                 \o YieldEntriesAbortOnError(atype, Tail(entries),
                                             file_extensions)
        Step(e, ext) ==
            Rest(e, ext, EntryIsVisited(atype, e) /\ ext \in file_extensions)
    IN  IF entries = <<>> THEN <<>>
        ELSE Step(Head(entries), EntryExt(Head(entries).path))

RECURSIVE YieldEntries(_, _, _)
\* The loop over the members of an opened archive: the calls of
\* processor_func, in order.  An entry whose read raises is logged and
\* passed over.
YieldEntries(atype, entries, file_extensions) ==
    LET Call(e, ext) ==
            IF /\ EntryIsVisited(atype, e)
               /\ ext \in file_extensions
               /\ e.readable
            THEN <<[file_type |-> ext, file_path |-> e.path,
                    content |-> DecodeContent(e.data)]>>
            ELSE <<>>
    IN  IF entries = <<>> THEN <<>>
        ELSE Call(Head(entries), EntryExt(Head(entries).path))
                \o YieldEntries(atype, Tail(entries), file_extensions)

\* process_archive_file(archive_path, processor_func, file_extensions): the
\* sequence of calls it makes of processor_func.  An unsupported suffix
\* returns at once; an archive that cannot be opened or listed raises before
\* the first entry and the error is logged.
ProcessArchiveFile(archive, file_extensions) ==
    LET Read(archive_type) ==
            IF archive_type = "unsupported" THEN <<>>
            ELSE IF archive.corrupt THEN <<>>
            ELSE YieldEntries(archive_type, archive.entries, file_extensions)
    IN  Read(ArchiveType(archive.path))

\* ------------------------------------------------- the manifest metadata
Unknown == <<"U", "n", "k", "n", "o", "w", "n">>

Skipped == <<"S", "k", "i", "p", "p", "e", "d">>

UnknownMetadata ==
    [license |-> Unknown, homepage |-> Unknown, dev_repo |-> Unknown]

LicenseKey == <<"l", "i", "c", "e", "n", "s", "e">>

HomepageKey == <<"h", "o", "m", "e", "p", "a", "g", "e">>

DevRepoKey == <<"d", "e", "v", "-", "r", "e", "p", "o">>

\* line.startswith("key:") or line.startswith("key :")
HasKey(line, key) ==
    StartsWith(line, key \o <<":">>) \/ StartsWith(line, key \o <<" ", ":">>)

\* line.split(":", 1)[1].strip().strip('"')
FieldValue(line) ==
    StripChars(StripChars(AfterFirstColon(line), Whitespace), {"\""})

\* One line of a manifest: the first key that the stripped line starts with
\* has its field overwritten.
ParseOpamLine(metadata, rawLine) ==
    LET Parse(line) ==
            IF HasKey(line, LicenseKey)
            THEN [metadata EXCEPT !.license = FieldValue(line)]
            ELSE IF HasKey(line, HomepageKey)
            THEN [metadata EXCEPT !.homepage = FieldValue(line)]
            ELSE IF HasKey(line, DevRepoKey)
            THEN [metadata EXCEPT !.dev_repo = FieldValue(line)]
            ELSE metadata
    IN  Parse(StripChars(rawLine, Whitespace))

RECURSIVE ParseOpamLines(_, _)
\* for line in content.splitlines(): ...
ParseOpamLines(metadata, lines) ==
    IF lines = <<>> THEN metadata
    ELSE ParseOpamLines(ParseOpamLine(metadata, Head(lines)), Tail(lines))

\* opam_file_pattern.match(basename): <package_base_name>.opam or opam
OpamFilePatternMatch(package_base_name, basename) ==
    \/ basename = package_base_name \o <<".">> \o Opam
    \/ basename = Opam

\* process_opam_file(file_type, file_path, content) on the metadata of the
\* archive
ProcessOpamFile(metadata, package_base_name, call) ==
    IF /\ call.file_type = Opam
       /\ OpamFilePatternMatch(package_base_name, Basename(call.file_path))
    THEN ParseOpamLines(metadata, call.content)
    ELSE metadata

RECURSIVE FoldOpamFiles(_, _, _)
\* process_opam_file called on the calls of the reader, in order
FoldOpamFiles(metadata, package_base_name, calls) ==
    IF calls = <<>> THEN metadata
    ELSE FoldOpamFiles(ProcessOpamFile(metadata, package_base_name, Head(calls)),
                       package_base_name, Tail(calls))

\* extract_metadata_from_archive(archive_path, package_base_name)
ExtractMetadataFromArchive(archive, package_base_name) ==
    FoldOpamFiles(UnknownMetadata, package_base_name,
                  ProcessArchiveFile(archive, OpamExtensions))

\* ------------------------------------------------------ the bounded inputs
\* Directory names of a cache: a.1.2  a.1.10  a.1.2~a  a.1.2-a  a.1.2+b  a.2  a.v2  a.01  a_2  b.1
DirPool ==
    {<<"a", ".", "1", ".", "2">>,
     <<"a", ".", "1", ".", "1", "0">>,
     <<"a", ".", "1", ".", "2", "~", "a">>,
     <<"a", ".", "1", ".", "2", "-", "a">>,
     <<"a", ".", "1", ".", "2", "+", "b">>,
     <<"a", ".", "2">>,
     <<"a", ".", "v", "2">>,
     <<"a", ".", "0", "1">>,
     <<"a", "_", "2">>,
     <<"b", ".", "1">>}

\* Directory names of a small cache: a.1.2.0  a.1.3.0  b.2
MainDirPool ==
    {<<"a", ".", "1", ".", "2", ".", "0">>,
     <<"a", ".", "1", ".", "3", ".", "0">>,
     <<"b", ".", "2">>}

\* Directory names of a cache of three packages: a.1  a.2  b.1  c.1~x
SmallDirPool ==
    {<<"a", ".", "1">>,
     <<"a", ".", "2">>,
     <<"b", ".", "1">>,
     <<"c", ".", "1", "~", "x">>}

\* x.ml, an OCaml source
EntryMl ==
    [path |-> <<"x", ".", "m", "l">>, etype |-> "file", readable |-> TRUE,
     data |-> [utf8 |-> TRUE, lines |-> <<<<"l", "e", "t", " ", "x", " ", "=", " ", "1">>>>]]

\* d/dune, a build file named by its base name
EntryDune ==
    [path |-> <<"d", "/", "d", "u", "n", "e">>, etype |-> "file", readable |-> TRUE,
     data |-> [utf8 |-> TRUE, lines |-> <<<<"(", "l", "i", "b", "r", "a", "r", "y", ")">>>>]]

\* r.txt, a file of no target kind
EntryTxt ==
    [path |-> <<"r", ".", "t", "x", "t">>, etype |-> "file", readable |-> TRUE,
     data |-> [utf8 |-> TRUE, lines |-> <<<<"r", "e", "a", "d", "m", "e">>>>]]

\* d/, a directory entry
EntryDir ==
    [path |-> <<"d", "/">>, etype |-> "dir", readable |-> TRUE,
     data |-> [utf8 |-> TRUE, lines |-> <<>>]]

\* y.ml, a symbolic link (a tar member that is no regular file; in a zip an entry whose data is the target)
EntryLink ==
    [path |-> <<"y", ".", "m", "l">>, etype |-> "link", readable |-> TRUE,
     data |-> [utf8 |-> TRUE, lines |-> <<<<"x", ".", "m", "l">>>>]]

\* z.ml, an entry whose read raises
EntryBroken ==
    [path |-> <<"z", ".", "m", "l">>, etype |-> "file", readable |-> FALSE,
     data |-> [utf8 |-> TRUE, lines |-> <<<<"l", "e", "t", " ", "z">>>>]]

\* w.c, bytes that are not UTF-8
EntryBinary ==
    [path |-> <<"w", ".", "c">>, etype |-> "file", readable |-> TRUE,
     data |-> [utf8 |-> FALSE, lines |-> <<<<"i", "n", "t", " ", "w", ";">>>>]]

\* a.opam with a license
EntryOpamMit ==
    [path |-> <<"a", ".", "o", "p", "a", "m">>, etype |-> "file", readable |-> TRUE,
     data |-> [utf8 |-> TRUE, lines |-> <<<<"o", "p", "a", "m", "-", "v", "e", "r", "s", "i", "o", "n", ":", " ", "\"", "2", ".", "0", "\"">>, <<"l", "i", "c", "e", "n", "s", "e", ":", " ", "\"", "M", "I", "T", "\"">>>>]]

\* v/a.opam with another license and a homepage
EntryOpamIsc ==
    [path |-> <<"v", "/", "a", ".", "o", "p", "a", "m">>, etype |-> "file", readable |-> TRUE,
     data |-> [utf8 |-> TRUE, lines |-> <<<<"l", "i", "c", "e", "n", "s", "e", " ", ":", " ", "\"", "I", "S", "C", "\"">>, <<"h", "o", "m", "e", "p", "a", "g", "e", ":", " ", "\"", "h", "\"">>>>]]

\* p/a.opam with none of the three fields
EntryOpamPlain ==
    [path |-> <<"p", "/", "a", ".", "o", "p", "a", "m">>, etype |-> "file", readable |-> TRUE,
     data |-> [utf8 |-> TRUE, lines |-> <<<<"o", "p", "a", "m", "-", "v", "e", "r", "s", "i", "o", "n", ":", " ", "\"", "2", ".", "0", "\"">>>>]]

\* b.opam with a dev-repo
EntryOpamB ==
    [path |-> <<"b", ".", "o", "p", "a", "m">>, etype |-> "file", readable |-> TRUE,
     data |-> [utf8 |-> TRUE, lines |-> <<<<"d", "e", "v", "-", "r", "e", "p", "o", ":", " ", "\"", "g", "\"">>>>]]

\* opam (no extension) with a license
EntryOpamBare ==
    [path |-> <<"o", "p", "a", "m">>, etype |-> "file", readable |-> TRUE,
     data |-> [utf8 |-> TRUE, lines |-> <<<<"l", "i", "c", "e", "n", "s", "e", ":", " ", "\"", "B", "S", "D", "\"">>>>]]

\* a.1.tbz: a manifest and a source file
ArchiveSource ==
    [path |-> <<"a", ".", "1", ".", "t", "b", "z">>, corrupt |-> FALSE,
     entries |-> <<EntryOpamMit, EntryMl>>]

\* a.1.tgz: an unreadable tar stream
ArchiveCorrupt ==
    [path |-> <<"a", ".", "1", ".", "t", "g", "z">>, corrupt |-> TRUE,
     entries |-> <<EntryOpamIsc, EntryMl>>]

\* a.1.tar.gz: no entry of a target kind
ArchiveNoTarget ==
    [path |-> <<"a", ".", "1", ".", "t", "a", "r", ".", "g", "z">>, corrupt |-> FALSE,
     entries |-> <<EntryTxt, EntryDir>>]

\* a-1.tar.bz2: three manifests of package a
ArchiveTwoManifests ==
    [path |-> <<"a", "-", "1", ".", "t", "a", "r", ".", "b", "z", "2">>, corrupt |-> FALSE,
     entries |-> <<EntryOpamPlain, EntryOpamMit, EntryOpamIsc>>]

\* b-1.tar.bz2: an archive named after b
ArchiveOtherName ==
    [path |-> <<"b", "-", "1", ".", "t", "a", "r", ".", "b", "z", "2">>, corrupt |-> FALSE,
     entries |-> <<EntryOpamB, EntryOpamMit>>]

\* a.2.tbz: a link and an entry whose read raises
ArchiveTarLinks ==
    [path |-> <<"a", ".", "2", ".", "t", "b", "z">>, corrupt |-> FALSE,
     entries |-> <<EntryLink, EntryBroken>>]

\* a.1.zip: a link, undecodable bytes and a manifest
ArchiveZipMixed ==
    [path |-> <<"a", ".", "1", ".", "z", "i", "p">>, corrupt |-> FALSE,
     entries |-> <<EntryLink, EntryBinary, EntryOpamIsc>>]

\* The archives a package directory of the small cache may hold
MainArchivePool ==
    {ArchiveSource,
     ArchiveCorrupt,
     ArchiveNoTarget,
     ArchiveTwoManifests,
     ArchiveOtherName,
     ArchiveTarLinks,
     ArchiveZipMixed}

\* The archives a package directory of the cache of three packages may hold
SmallArchivePool == {ArchiveSource}

\* The entries an archive under test is made of
EntryPool ==
    {EntryMl, EntryDune, EntryTxt, EntryDir,
     EntryLink, EntryBroken, EntryBinary, EntryOpamMit,
     EntryOpamIsc, EntryOpamPlain, EntryOpamB, EntryOpamBare}

\* Package names: a  ab  a.b  a-b  a_b  a.1
ParseNames ==
    {<<"a">>,
     <<"a", "b">>,
     <<"a", ".", "b">>,
     <<"a", "-", "b">>,
     <<"a", "_", "b">>,
     <<"a", ".", "1">>}

\* Versions major[.minor[.patch]][suffix]: 1  1.2  1.2.3  v1.2  1.2~rc  1.2-rc  1.2+b  01.2  1-a.2  1.2.3-a_b
ParseVersions ==
    {<<"1">>,
     <<"1", ".", "2">>,
     <<"1", ".", "2", ".", "3">>,
     <<"v", "1", ".", "2">>,
     <<"1", ".", "2", "~", "r", "c">>,
     <<"1", ".", "2", "-", "r", "c">>,
     <<"1", ".", "2", "+", "b">>,
     <<"0", "1", ".", "2">>,
     <<"1", "-", "a", ".", "2">>,
     <<"1", ".", "2", ".", "3", "-", "a", "_", "b">>}

\* Archive paths: x.zip  x.tbz  x.tar.xz
TestPaths ==
    {<<"x", ".", "z", "i", "p">>,
     <<"x", ".", "t", "b", "z">>,
     <<"x", ".", "t", "a", "r", ".", "x", "z">>}

\* The archives under test: every path, readable or not, with every
\* sequence of up to MaxEntries entries
TestArchives ==
    {[path |-> p, corrupt |-> c, entries |-> es] :
        p \in TestPaths, c \in BOOLEAN,
        es \in UNION {[1..n -> EntryPool] : n \in 0..MaxEntries}}

\* The target kind sets under test
TestExtensions == {DefaultExtensions, OpamExtensions, {<<"m", "l">>}}

\* -------------------------------------------------------------- the state
VARIABLES
    pc,                        \* where main is
    cache,                     \* os.listdir(cache_path): the directory names
    scanned,                   \* the directory names scanned, in scan order
    packages,                  \* the dict of get_packages_from_cache, in key order
    pkgIdx,                    \* position of the package loop in packages
    archive_files,             \* the archives globbed for the current package
    archIdx,                   \* position of the archive loop in archive_files
    package_metadata,          \* metadata of the current package
    current_package_contents,  \* files collected for the current package
    package_data,              \* the records appended so far
    globbed,                   \* per record, the archive_files it was built from
    batch_size,                \* the batch_size argument of main
    dataset,                   \* the rows of Dataset.from_dict(data_dict)
    batchIdx,                  \* i of the batch loop
    written,                   \* per batch index, the Parquet file written
    probe,                     \* the input of a function under test
    answer                     \* what the function under test returned

vars ==
    <<pc, cache, scanned, packages, pkgIdx, archive_files, archIdx,
      package_metadata, current_package_contents, package_data, globbed,
      batch_size, dataset, batchIdx, written, probe, answer>>

scanVars == <<cache, scanned, packages>>

loopVars ==
    <<pkgIdx, archive_files, archIdx, package_metadata,
      current_package_contents, package_data, globbed>>

exportVars == <<batch_size, dataset, batchIdx, written>>

probeVars == <<probe, answer>>

Range(f) == {f[i] : i \in DOMAIN f}

\* Lines 178-198 on one directory name: the regex match, the version string
\* assembled for semver and its parse.
ParseDirName(dirname) ==
    LET Parsed(m, version) ==
            IF version.ok
            THEN [matched |-> TRUE, parsed |-> TRUE, name |-> m.name,
                  version_info |-> version,
                  version_str |-> VersionStr(version)]
            ELSE [matched |-> TRUE, parsed |-> FALSE, name |-> m.name]
        Matched(m) ==
            IF ~m.ok \/ m.name = <<>>
            THEN [matched |-> FALSE, parsed |-> FALSE]
            ELSE Parsed(m, SemverParse(VersionStrForParse(m)))
    IN  Matched(PkgVersionMatch(dirname))

HasPackage(pkgs, name) == \E i \in 1..Len(pkgs) : pkgs[i].name = name

PackageOf(pkgs, name) ==
    pkgs[CHOOSE i \in 1..Len(pkgs) : pkgs[i].name = name]

\* TakesEntry with >= in the place of >: a directory of equal precedence
\* displaces the retained one.
TakesEntryOnTie(pkgs, name, version) ==
    \/ ~HasPackage(pkgs, name)
    \/ SemverCompare(version, PackageOf(pkgs, name).version_info) >= 0

\* name not in packages or version > packages[name]["version_info"]
TakesEntry(pkgs, name, version) ==
    \/ ~HasPackage(pkgs, name)
    \/ VersionGreater(version, PackageOf(pkgs, name).version_info)

\* packages[name] = {...}: a new key goes last, a known key keeps its place
StoreEntry(pkgs, entry) ==
    IF HasPackage(pkgs, entry.name)
    THEN [i \in 1..Len(pkgs) |->
             IF pkgs[i].name = entry.name THEN entry ELSE pkgs[i]]
    ELSE Append(pkgs, entry)

ZeroVersion ==
    [ok |-> TRUE, major |-> 0, minor |-> 0, patch |-> 0,
     prerelease |-> <<>>, build |-> <<>>]

\* OnValueError that keeps the directory as version 0.0.0 when its
\* identifier has no entry yet.
OnValueErrorFallback(pkgs, name, dirname) ==
    IF HasPackage(pkgs, name) THEN pkgs
    ELSE Append(pkgs, [name |-> name, version_info |-> ZeroVersion,
                       version_str |-> VersionStr(ZeroVersion),
                       dir |-> dirname])

\* What a directory whose version semver rejects leaves of the dict: the
\* except ValueError branch logs a warning and passes the directory over.
OnValueError(pkgs, name, dirname) == pkgs

\* The body of the loop over os.listdir(cache_path) for one directory name
ScanOne(pkgs, dirname) ==
    LET Body(p) ==
            IF ~p.matched THEN pkgs
            ELSE IF ~p.parsed THEN OnValueError(pkgs, p.name, dirname)
            ELSE IF TakesEntry(pkgs, p.name, p.version_info)
            THEN StoreEntry(pkgs, [name |-> p.name,
                                   version_info |-> p.version_info,
                                   version_str |-> p.version_str,
                                   dir |-> dirname])
            ELSE pkgs
    IN  Body(ParseDirName(dirname))

\* One turn of the loop of get_packages_from_cache; os.listdir gives the
\* names in any order.
ScanDir ==
    /\ pc = "scan"
    /\ \E dirname \in cache \ Range(scanned) :
          /\ scanned' = Append(scanned, dirname)
          /\ packages' = ScanOne(packages, dirname)
    /\ UNCHANGED <<pc, cache>>
    /\ UNCHANGED <<loopVars, exportVars, probeVars>>

\* The listing is exhausted and no package was found: main returns.
ScanFoundNothing ==
    /\ pc = "scan"
    /\ Range(scanned) = cache
    /\ packages = <<>>
    /\ pc' = "done"
    /\ UNCHANGED <<scanVars, loopVars, exportVars, probeVars>>

\* The listing is exhausted: main enters the package loop.
ScanDone ==
    /\ pc = "scan"
    /\ Range(scanned) = cache
    /\ packages # <<>>
    /\ pc' = "packages"
    /\ UNCHANGED <<scanVars, loopVars, exportVars, probeVars>>

\* ------------------------------------------------- the package loop of main
\* The rank of the glob pattern that finds the archive: *.tbz, *.tgz,
\* *.tar.gz, *.tar.bz2, *.zip in this order; 0 for a file none of them finds.
GlobRank(path) ==
    IF EndsWith(path, <<".", "t", "b", "z">>) THEN 1
    ELSE IF EndsWith(path, <<".", "t", "g", "z">>) THEN 2
    ELSE IF EndsWith(path, <<".", "t", "a", "r", ".", "g", "z">>) THEN 3
    ELSE IF EndsWith(path, <<".", "t", "a", "r", ".", "b", "z", "2">>) THEN 4
    ELSE IF EndsWith(path, <<".", "z", "i", "p">>) THEN 5
    ELSE 0

\* The values archive_files can take for a directory that holds archives of
\* the pool: files of different names, pattern after pattern, the files of
\* one pattern in any order.
GlobResults(pool) ==
    {fs \in UNION {[1..n -> pool] : n \in 0..MaxArchives} :
        /\ \A i \in 1..Len(fs) : GlobRank(fs[i].path) > 0
        /\ \A i, j \in 1..Len(fs) :
              i < j => /\ fs[i].path # fs[j].path
                       /\ GlobRank(fs[i].path) <= GlobRank(fs[j].path)}

\* re.match(r"^(.*?)(?:[._-](?:v\d|\d))", archive_filename_base): the ends
\* of the prefixes that a separator and a version-like start follow
HintEnds(base) ==
    {i \in 0..(Len(base) - 2) :
        /\ base[i + 1] \in {".", "_", "-"}
        /\ \/ base[i + 2] \in Digits
           \/ /\ base[i + 2] = "v"
              /\ i + 3 <= Len(base)
              /\ base[i + 3] \in Digits}

\* archive_name_for_meta_lookup: the directory's package name, or the name
\* the archive's file name suggests when that is non-empty and another one
ArchiveNameForMetaLookup(package_name, base) ==
    LET Pick(potential) ==
            IF potential # <<>> /\ potential # package_name
            THEN potential
            ELSE package_name
        Hint(ends) ==
            IF ends = {} THEN package_name
            ELSE Pick(SubSeq(base, 1, SetMin(ends)))
    IN  Hint(HintEnds(base))

\* any(current_archive_metadata[k] != "Unknown" for k in ...)
AnyKnown(m) ==
    m.license # Unknown \/ m.homepage # Unknown \/ m.dev_repo # Unknown

FreshMetadata ==
    [license |-> Unknown, homepage |-> Unknown, dev_repo |-> Unknown,
     processed_opam_file_for_metadata |-> FALSE]

\* UpdatedMetadata without the processed_opam_file_for_metadata test: every
\* archive with a known field overwrites the metadata.
UpdatedMetadataAlways(metadata, archive, lookup_name) ==
    LET Update(found) ==
            IF AnyKnown(found)
            THEN [license |-> found.license, homepage |-> found.homepage,
                  dev_repo |-> found.dev_repo,
                  processed_opam_file_for_metadata |-> TRUE]
            ELSE metadata
    IN  Update(ExtractMetadataFromArchive(archive, lookup_name))

\* Lines 301-308: the archive's metadata is asked for only while no
\* archive has given any, and is taken when it has a known field.
UpdatedMetadata(metadata, archive, lookup_name) ==
    LET Update(found) ==
            IF AnyKnown(found)
            THEN [license |-> found.license, homepage |-> found.homepage,
                  dev_repo |-> found.dev_repo,
                  processed_opam_file_for_metadata |-> TRUE]
            ELSE metadata
    IN  IF metadata.processed_opam_file_for_metadata THEN metadata
        ELSE Update(ExtractMetadataFromArchive(archive, lookup_name))

\* CollectedContents in which an archive that cannot be read loses the files
\* collected before it
CollectedContentsLostOnError(contents, archive) ==
    IF archive.corrupt THEN <<>>
    ELSE contents \o ProcessArchiveFile(archive, DefaultExtensions)

\* content_collector on the calls of process_archive_file(archive_path, ...)
CollectedContents(contents, archive) ==
    contents \o ProcessArchiveFile(archive, DefaultExtensions)

NoArchiveError == "No .tbz, .tgz, .tar.gz, .tar.bz2, or .zip archive found"

EmptyArchiveError == "Archives found but contained no processable files"

\* NoArchiveRecord with the metadata of a package that was looked up
NoArchiveRecordUnknown(package_name, version_str) ==
    [package_name |-> package_name, version |-> version_str,
     license |-> Unknown, homepage |-> Unknown, dev_repo |-> Unknown,
     files |-> <<>>, error |-> NoArchiveError]

\* The record appended for a package whose directory holds no archive
NoArchiveRecord(package_name, version_str) ==
    [package_name |-> package_name, version |-> version_str,
     license |-> Skipped, homepage |-> Skipped, dev_repo |-> Skipped,
     files |-> <<>>, error |-> NoArchiveError]

\* The record appended after the archives of a package: with an error when
\* nothing was collected, without the error key otherwise
FinishedRecord(package_name, version_str, metadata, contents) ==
    IF contents = <<>>
    THEN [package_name |-> package_name, version |-> version_str,
          license |-> metadata.license, homepage |-> metadata.homepage,
          dev_repo |-> metadata.dev_repo,
          files |-> <<>>, error |-> EmptyArchiveError]
    ELSE [package_name |-> package_name, version |-> version_str,
          license |-> metadata.license, homepage |-> metadata.homepage,
          dev_repo |-> metadata.dev_repo,
          files |-> contents]

\* PackageWithoutArchive that continues without appending a record
PackageSkippedWithoutRecord ==
    /\ pc = "packages"
    /\ pkgIdx <= Len(packages)
    /\ pkgIdx' = pkgIdx + 1
    /\ archive_files' = <<>>
    /\ archIdx' = 1
    /\ package_metadata' = FreshMetadata
    /\ current_package_contents' = <<>>
    /\ UNCHANGED <<pc, package_data, globbed, scanVars, exportVars, probeVars>>

\* A turn of the package loop for a directory in which glob finds nothing:
\* the "Skipped" record is appended and the loop continues.
PackageWithoutArchive ==
    /\ pc = "packages"
    /\ pkgIdx <= Len(packages)
    /\ package_data' =
          Append(package_data,
                 NoArchiveRecord(packages[pkgIdx].name,
                                 packages[pkgIdx].version_str))
    /\ globbed' = Append(globbed, <<>>)
    /\ pkgIdx' = pkgIdx + 1
    /\ archive_files' = <<>>
    /\ archIdx' = 1
    /\ package_metadata' = FreshMetadata
    /\ current_package_contents' = <<>>
    /\ UNCHANGED <<pc, scanVars, exportVars, probeVars>>

\* A turn of the package loop for a directory in which glob finds archives:
\* the per-package state is reset and the archive loop entered.
PackageWithArchives(pool) ==
    /\ pc = "packages"
    /\ pkgIdx <= Len(packages)
    /\ \E found \in GlobResults(pool) :
          /\ found # <<>>
          /\ archive_files' = found
    /\ archIdx' = 1
    /\ package_metadata' = FreshMetadata
    /\ current_package_contents' = <<>>
    /\ pc' = "archives"
    /\ UNCHANGED <<pkgIdx, package_data, globbed>>
    /\ UNCHANGED <<scanVars, exportVars, probeVars>>

\* One turn of the archive loop: the metadata lookup, then the collection
\* of the archive's files.
ProcessArchive ==
    /\ pc = "archives"
    /\ archIdx <= Len(archive_files)
    /\ package_metadata' =
          UpdatedMetadata(
              package_metadata, archive_files[archIdx],
              ArchiveNameForMetaLookup(
                  packages[pkgIdx].name,
                  Basename(archive_files[archIdx].path)))
    /\ current_package_contents' =
          CollectedContents(current_package_contents, archive_files[archIdx])
    /\ archIdx' = archIdx + 1
    /\ UNCHANGED <<pc, pkgIdx, archive_files, package_data, globbed>>
    /\ UNCHANGED <<scanVars, exportVars, probeVars>>

\* After the last archive of the package: its record is appended.
FinishPackage ==
    /\ pc = "archives"
    /\ archIdx > Len(archive_files)
    /\ package_data' =
          Append(package_data,
                 FinishedRecord(packages[pkgIdx].name,
                                packages[pkgIdx].version_str,
                                package_metadata, current_package_contents))
    /\ globbed' = Append(globbed, archive_files)
    /\ pkgIdx' = pkgIdx + 1
    /\ pc' = "packages"
    /\ UNCHANGED <<archive_files, archIdx, package_metadata,
                   current_package_contents>>
    /\ UNCHANGED <<scanVars, exportVars, probeVars>>

\* ------------------------------------------------------ the Parquet export
None == "None"

\* One row of data_dict: item.get(column) for every column, the error
\* column None for a record without the key.
RowOf(item) ==
    [package_name |-> item.package_name, version |-> item.version,
     license |-> item.license, homepage |-> item.homepage,
     dev_repo |-> item.dev_repo, files |-> item.files,
     error |-> IF "error" \in DOMAIN item THEN item.error ELSE None]

\* Dataset.from_dict(data_dict): the rows in the order of package_data
DatasetFromRecords(records) ==
    [i \in 1..Len(records) |-> RowOf(records[i])]

\* num_batches = (len(dataset) + batch_size - 1) // batch_size
NumBatches(n, size) == (n + size - 1) \div size

\* Shard that deals the rows out in turn: rows index, index + num_shards, ...
\* counted from 0
ShardStrided(rows, num_shards, index) ==
    LET Pick(n) == [k \in 1..n |-> rows[index + (k - 1) * num_shards + 1]]
    IN  Pick(Cardinality({j \in 0..(Len(rows) - 1) :
                             j % num_shards = index}))

\* dataset.shard(num_shards=num_shards, index=index): the contiguous
\* shard of the datasets library, rows start..end-1 counted from 0.
Shard(rows, num_shards, index) ==
    LET Rows(start, end) == SubSeq(rows, start + 1, end)
        Bounds(div, mod, start) ==
            Rows(start, start + div + (IF index < mod THEN 1 ELSE 0))
        Split(div, mod) ==
            Bounds(div, mod, div * index + (IF index < mod THEN index ELSE mod))
    IN  Split(Len(rows) \div num_shards, Len(rows) % num_shards)

\* After the package loop: package_data is turned into the dataset.
BuildDataset ==
    /\ pc = "packages"
    /\ pkgIdx > Len(packages)
    /\ package_data # <<>>
    /\ dataset' = DatasetFromRecords(package_data)
    /\ batchIdx' = 0
    /\ pc' = "write"
    /\ UNCHANGED <<batch_size, written>>
    /\ UNCHANGED <<scanVars, loopVars, probeVars>>

\* One turn of the batch loop in which to_parquet succeeds
WriteBatch ==
    /\ pc = "write"
    /\ batchIdx < NumBatches(Len(dataset), batch_size)
    /\ written' =
          Append(written,
                 [saved |-> TRUE,
                  rows |-> Shard(dataset,
                                 NumBatches(Len(dataset), batch_size),
                                 batchIdx)])
    /\ batchIdx' = batchIdx + 1
    /\ UNCHANGED <<pc, batch_size, dataset>>
    /\ UNCHANGED <<scanVars, loopVars, probeVars>>

\* One turn of the batch loop in which to_parquet raises: the error is
\* logged and the loop goes on.
WriteBatchFails ==
    /\ pc = "write"
    /\ batchIdx < NumBatches(Len(dataset), batch_size)
    /\ written' = Append(written, [saved |-> FALSE, rows |-> <<>>])
    /\ batchIdx' = batchIdx + 1
    /\ UNCHANGED <<pc, batch_size, dataset>>
    /\ UNCHANGED <<scanVars, loopVars, probeVars>>

\* After the last batch: the push to the hub, whose outcome changes nothing
\* here, and the end of main.
FinishExport ==
    /\ pc = "write"
    /\ batchIdx >= NumBatches(Len(dataset), batch_size)
    /\ pc' = "done"
    /\ UNCHANGED <<scanVars, loopVars, exportVars, probeVars>>

\* ---------------------------------------------------- the specifications
Idle ==
    /\ scanned = <<>>
    /\ packages = <<>>
    /\ pkgIdx = 1
    /\ archive_files = <<>>
    /\ archIdx = 1
    /\ package_metadata = FreshMetadata
    /\ current_package_contents = <<>>
    /\ package_data = <<>>
    /\ globbed = <<>>
    /\ dataset = <<>>
    /\ batchIdx = 0
    /\ written = <<>>

\* main started on a cache whose directory names are among dirs, with a
\* batch size of at most maxBatch
InitWith(dirs, maxBatch) ==
    /\ pc = "scan"
    /\ cache \in {c \in SUBSET dirs : Cardinality(c) <= MaxDirs}
    /\ batch_size \in 1..maxBatch
    /\ probe = <<>>
    /\ answer = <<>>
    /\ Idle

NextWith(pool) ==
    \/ ScanDir
    \/ ScanFoundNothing
    \/ ScanDone
    \/ PackageWithoutArchive
    \/ PackageWithArchives(pool)
    \/ ProcessArchive
    \/ FinishPackage
    \/ BuildDataset
    \/ WriteBatch
    \/ WriteBatchFails
    \/ FinishExport

\* main on a cache of up to three packages whose directories hold one kind
\* of archive or none, with every batch size
Init == InitWith(SmallDirPool, MaxBatch)

Next == NextWith(SmallArchivePool)

Spec == Init /\ [][Next]_vars

\* main up to the end of its package loop, on a cache of up to two packages
\* whose directories hold archives of every kind
InitMain == InitWith(MainDirPool, 1)

NextMain ==
    \/ ScanDir
    \/ ScanFoundNothing
    \/ ScanDone
    \/ PackageWithoutArchive
    \/ PackageWithArchives(MainArchivePool)
    \/ ProcessArchive
    \/ FinishPackage

SpecMain == InitMain /\ [][NextMain]_vars

\* get_packages_from_cache alone, on a cache of directory names of every
\* shape, up to its return
InitScan == InitWith(DirPool, 1)

NextScan == ScanDir \/ ScanFoundNothing \/ ScanDone

SpecScan == InitScan /\ [][NextScan]_vars

\* The Version Parser alone: one name and one version, joined by each of
\* the separators . _ - in turn and parsed
InitParse ==
    /\ pc = "parse"
    /\ probe \in [name : ParseNames, version : ParseVersions]
    /\ answer = <<>>
    /\ cache = {}
    /\ batch_size = 1
    /\ Idle

\* The directory name <name><sep><version> goes through lines 178-198.
ParseWithSeparator ==
    /\ pc = "parse"
    /\ \E sep \in {".", "_", "-"} \ DOMAIN answer :
          answer' =
              answer @@ (sep :> ParseDirName(probe.name \o <<sep>>
                                                \o probe.version))
    /\ UNCHANGED <<pc, probe, scanVars, loopVars, exportVars>>

ParseFinished ==
    /\ pc = "parse"
    /\ DOMAIN answer = {".", "_", "-"}
    /\ pc' = "done"
    /\ UNCHANGED <<probeVars, scanVars, loopVars, exportVars>>

NextParse == ParseWithSeparator \/ ParseFinished

SpecParse == InitParse /\ [][NextParse]_vars

\* The Archive Reader and the Metadata Extractor alone, on one archive
InitArchive ==
    /\ pc = "read"
    /\ probe \in [archive : TestArchives,
                  file_extensions : TestExtensions,
                  package_base_name : {<<"a">>}]
    /\ answer = <<>>
    /\ cache = {}
    /\ batch_size = 1
    /\ Idle

\* process_archive_file(archive, processor_func, file_extensions) is called
\* and the calls it makes of processor_func are kept.
ReadArchive ==
    /\ pc = "read"
    /\ "calls" \notin DOMAIN answer
    /\ answer' =
          answer @@ ("calls" :> ProcessArchiveFile(probe.archive,
                                                   probe.file_extensions))
    /\ UNCHANGED <<pc, probe, scanVars, loopVars, exportVars>>

\* extract_metadata_from_archive(archive, package_base_name) is called.
ReadMetadata ==
    /\ pc = "read"
    /\ "metadata" \notin DOMAIN answer
    /\ answer' =
          answer @@ ("metadata" :>
                        ExtractMetadataFromArchive(probe.archive,
                                                   probe.package_base_name))
    /\ UNCHANGED <<pc, probe, scanVars, loopVars, exportVars>>

NextArchive == ReadArchive \/ ReadMetadata

SpecArchive == InitArchive /\ [][NextArchive]_vars

\* ------------------------------------------------- version resolution
\* The positions in scan order of the directories that parse to the name
Candidates(name) ==
    {i \in 1..Len(scanned) :
        /\ ParseDirName(scanned[i]).parsed
        /\ ParseDirName(scanned[i]).name = name}

VersionAt(i) == ParseDirName(scanned[i]).version_info

\* v is below w by major, minor, patch, or is a pre-release of the release w
CoreOrReleaseBelow(v, w) ==
    \/ v.major < w.major
    \/ v.major = w.major /\ v.minor < w.minor
    \/ v.major = w.major /\ v.minor = w.minor /\ v.patch < w.patch
    \/ /\ v.major = w.major /\ v.minor = w.minor /\ v.patch = w.patch
       /\ v.prerelease # <<>> /\ w.prerelease = <<>>

\* The first position in scan order whose version no candidate exceeds
FirstMaximal(name) ==
    SetMin({i \in Candidates(name) :
               \A j \in Candidates(name) :
                   SemverCompare(VersionAt(j), VersionAt(i)) <= 0})

ScannedNames ==
    {ParseDirName(scanned[i]).name :
        i \in {k \in 1..Len(scanned) : ParseDirName(scanned[k]).parsed}}

\* C1: at every point of the scan, each identifier with a parsed directory
\* has exactly one entry, that entry is the first directory in scan order
\* whose version is maximal (no candidate is above it by major, minor, patch
\* or as the release of its pre-release), and no other identifier has one.
C1_RetainsFirstMaximal ==
    /\ \A i \in 1..Len(packages) : packages[i].name \in ScannedNames
    /\ \A name \in ScannedNames :
          /\ Cardinality({i \in 1..Len(packages) : packages[i].name = name}) = 1
          /\ PackageOf(packages, name).dir = scanned[FirstMaximal(name)]
          /\ PackageOf(packages, name).version_info =
                VersionAt(FirstMaximal(name))
          /\ \A j \in Candidates(name) :
                ~CoreOrReleaseBelow(PackageOf(packages, name).version_info,
                                    VersionAt(j))

\* C1 witness: three directories of one identifier were scanned, the
\* retained one was followed by one of equal precedence and by a lower one.
C1_Witness ==
    /\ pc = "packages"
    /\ Len(scanned) = 3
    /\ \E name \in ScannedNames :
          /\ Cardinality(Candidates(name)) = 3
          /\ \E i, j, k \in Candidates(name) :
                /\ i < j
                /\ PackageOf(packages, name).dir = scanned[i]
                /\ SemverCompare(VersionAt(i), VersionAt(j)) = 0
                /\ SemverCompare(VersionAt(k), VersionAt(i)) < 0

\* The positions in scan order of the directories that match the directory
\* grammar and whose version semver rejects
Unparsed ==
    {i \in 1..Len(scanned) :
        /\ ParseDirName(scanned[i]).matched
        /\ ~ParseDirName(scanned[i]).parsed}

\* C7 as stated: a directory that matches the grammar but has no semantic
\* version never displaces a parsed version of its identifier and, when no
\* other directory of the identifier parses, is retained as its entry.
C7_Original ==
    pc # "scan" =>
    \A i \in Unparsed :
        IF Candidates(ParseDirName(scanned[i]).name) # {}
        THEN PackageOf(packages, ParseDirName(scanned[i]).name).dir # scanned[i]
        ELSE /\ HasPackage(packages, ParseDirName(scanned[i]).name)
             /\ PackageOf(packages, ParseDirName(scanned[i]).name).dir
                   = scanned[i]

\* C7 amended: such a directory is passed over: it is the directory of no
\* entry, and when no directory of its identifier parses the identifier has
\* no entry at all.
C7_UnparsedIsSkipped ==
    \A i \in Unparsed :
        /\ \A k \in 1..Len(packages) : packages[k].dir # scanned[i]
        /\ Candidates(ParseDirName(scanned[i]).name) = {}
              => ~HasPackage(packages, ParseDirName(scanned[i]).name)

\* C7 witness: a directory without semantic version was scanned after a
\* parsed one of its identifier, which is still the entry, and the scan is
\* over.
C7_Witness ==
    /\ pc = "packages"
    /\ \E i \in Unparsed :
          \E j \in Candidates(ParseDirName(scanned[i]).name) :
              /\ j < i
              /\ PackageOf(packages, ParseDirName(scanned[i]).name).dir
                    = scanned[j]

\* ---------------------------------------------------- the Version Parser
\* No dot of the name is followed by a digit, or by v and a digit
DotSafe(name) ==
    \A i \in 1..Len(name) :
        name[i] = "." =>
            /\ ~(i + 1 <= Len(name) /\ name[i + 1] \in Digits)
            /\ ~(/\ i + 2 <= Len(name)
                 /\ name[i + 1] = "v"
                 /\ name[i + 2] \in Digits)

\* C2 as stated: the directory names <name>.<version>, <name>_<version> and
\* <name>-<version> parse to the same identifier and the same normalized
\* version.
C2_Original ==
    \A s1, s2 \in DOMAIN answer : answer[s1] = answer[s2]

\* C2 amended: only the dot is a separator: <name>.<version> gives the
\* identifier <name> (for a name no dot of which is followed by a digit or by
\* v and a digit), while <name>_<version> and <name>-<version> are rejected
\* or give another identifier.
C2_OnlyDotSeparates ==
    pc \in {"parse", "done"} =>
        /\ "." \in DOMAIN answer /\ DotSafe(probe.name) =>
              /\ answer["."].matched
              /\ answer["."].name = probe.name
        /\ \A sep \in DOMAIN answer \ {"."} :
              \/ ~answer[sep].matched
              \/ answer[sep].name # probe.name

\* C2 witness: the three names were parsed, the one with the dot to the
\* identifier and a version, the one with the underscore to another
\* identifier.
C2_Witness ==
    /\ pc = "done"
    /\ DOMAIN answer = {".", "_", "-"}
    /\ answer["."].parsed
    /\ answer["."].name = probe.name
    /\ answer["_"].parsed
    /\ answer["_"].name # probe.name

\* ------------------------------------------------------ the package loop
\* The package loop is over.
LoopFinished ==
    \/ pc = "packages" /\ pkgIdx > Len(packages)
    \/ pc \in {"write", "done"} /\ packages # <<>>

MetadataOf(record) ==
    [license |-> record.license, homepage |-> record.homepage,
     dev_repo |-> record.dev_repo]

RECURSIVE AllCollected(_)
\* The files of the target kinds that the archives yield, archive after
\* archive
AllCollected(archives) ==
    IF archives = <<>> THEN <<>>
    ELSE ProcessArchiveFile(Head(archives), DefaultExtensions)
            \o AllCollected(Tail(archives))

\* C3: when the package loop is over every entry of the resolution map has
\* exactly one record, which carries the entry's identifier and the
\* normalized version string of its directory, whatever its archives were;
\* and while the loop runs there is one record per entry handled.
C3_OneRecordPerEntry ==
    /\ pc \in {"packages", "archives"} => Len(package_data) = pkgIdx - 1
    /\ LoopFinished =>
          /\ Len(package_data) = Len(packages)
          /\ \A i \in 1..Len(packages) :
                /\ Cardinality({k \in 1..Len(package_data) :
                      package_data[k].package_name = packages[i].name}) = 1
                /\ package_data[i].package_name = packages[i].name
                /\ package_data[i].version = packages[i].version_str
                /\ package_data[i].version
                      = VersionStr(ParseDirName(packages[i].dir).version_info)

\* C3 witness: the loop is over for two packages, one without archive and
\* one whose archives are all unreadable.
C3_Witness ==
    /\ LoopFinished
    /\ Len(packages) = 2
    /\ \E i, j \in 1..Len(globbed) :
          /\ globbed[i] = <<>>
          /\ globbed[j] # <<>>
          /\ \A k \in 1..Len(globbed[j]) : globbed[j][k].corrupt

\* The values that the manifest lines of the archives give to some field
ManifestValues(archives) ==
    {FieldValue(StripChars(line, Whitespace)) :
        line \in UNION {Range(e.data.lines) :
                    e \in UNION {Range(a.entries) : a \in Range(archives)}}
                 \cap {l \in UNION {Range(e.data.lines) :
                    e \in UNION {Range(a.entries) : a \in Range(archives)}} :
                         \E i \in 1..Len(l) : l[i] = ":"}}

\* C4: every record follows the policy table: without archive, no file, the
\* "no archive" error and the three fields "Skipped"; with archives that
\* yield no file of a target kind, no file, the "no processable files" error
\* and fields that are "Unknown" or a value of a manifest; with archives
\* that yield files, all of them in order and no error key.
C4_PolicyTable ==
    \A i \in 1..Len(package_data) :
        IF globbed[i] = <<>>
        THEN /\ package_data[i].files = <<>>
             /\ "error" \in DOMAIN package_data[i]
             /\ package_data[i].error = NoArchiveError
             /\ MetadataOf(package_data[i])
                   = [license |-> Skipped, homepage |-> Skipped,
                      dev_repo |-> Skipped]
        ELSE /\ package_data[i].files = AllCollected(globbed[i])
             /\ \A f \in {"license", "homepage", "dev_repo"} :
                   package_data[i][f]
                       \in {Unknown} \cup ManifestValues(globbed[i])
             /\ IF AllCollected(globbed[i]) = <<>>
                THEN /\ "error" \in DOMAIN package_data[i]
                     /\ package_data[i].error = EmptyArchiveError
                ELSE "error" \notin DOMAIN package_data[i]

\* C4 witness: the loop is over with a record without archive and a record
\* whose archives (a tar of a link and an unreadable member among them)
\* gave no file.
C4_Witness ==
    /\ LoopFinished
    /\ \E i, j \in 1..Len(package_data) :
          /\ globbed[i] = <<>>
          /\ package_data[i].license = Skipped
          /\ ArchiveTarLinks \in Range(globbed[j])
          /\ package_data[j].files = <<>>
          /\ package_data[j].error = EmptyArchiveError
          /\ package_data[j].license = Unknown

\* The calls of the manifest callback that reach a manifest of the package:
\* the "opam" entries of the archive whose base name is that of the package
ManifestCalls(name, archive) ==
    LET Matching(lookup_name) ==
            SelectSeq(ProcessArchiveFile(archive, OpamExtensions),
                LAMBDA c : OpamFilePatternMatch(lookup_name,
                               Basename(c.file_path)))
    IN  Matching(ArchiveNameForMetaLookup(name, Basename(archive.path)))

RECURSIVE AllManifests(_, _)
AllManifests(name, archives) ==
    IF archives = <<>> THEN <<>>
    ELSE ManifestCalls(name, Head(archives))
            \o AllManifests(name, Tail(archives))

\* The fields of the first manifest entry that gives one, "Unknown" thrice
\* when none does
FirstManifestHit(calls) ==
    LET FieldsOf(k) == ParseOpamLines(UnknownMetadata, calls[k].content)
        Pick(hits) ==
            IF hits = {} THEN UnknownMetadata ELSE FieldsOf(SetMin(hits))
    IN  Pick({k \in 1..Len(calls) : AnyKnown(FieldsOf(k))})

\* C5 as stated: the metadata of a record are the fields of the first
\* manifest entry, over the archives in discovery order, that gives at least
\* one field.
C5_Original ==
    \A i \in 1..Len(package_data) :
        globbed[i] # <<>> =>
            MetadataOf(package_data[i])
                = FirstManifestHit(AllManifests(packages[i].name, globbed[i]))

RECURSIVE AllLines(_)
\* The stripped lines of the manifests, manifest after manifest
AllLines(calls) ==
    IF calls = <<>> THEN <<>>
    ELSE [k \in 1..Len(Head(calls).content) |->
              StripChars(Head(calls).content[k], Whitespace)]
            \o AllLines(Tail(calls))

\* The value the last line with the key gives
LastFieldValue(lines, key) ==
    LET Pick(ks) ==
            IF ks = {} THEN Unknown ELSE FieldValue(lines[SetMax(ks)])
    IN  Pick({k \in 1..Len(lines) : HasKey(lines[k], key)})

\* The manifests of one archive merged: the last line of a field wins
MergedManifests(name, archive) ==
    LET Merge(lines) ==
            [license |-> LastFieldValue(lines, LicenseKey),
             homepage |-> LastFieldValue(lines, HomepageKey),
             dev_repo |-> LastFieldValue(lines, DevRepoKey)]
    IN  Merge(AllLines(ManifestCalls(name, archive)))

FirstArchiveHit(name, archives) ==
    LET Pick(hits) ==
            IF hits = {} THEN UnknownMetadata
            ELSE MergedManifests(name, archives[SetMin(hits)])
    IN  Pick({k \in 1..Len(archives) :
                 AnyKnown(MergedManifests(name, archives[k]))})

\* The metadata of every record with archives are those of the first archive
\* that gives a field
MetadataFromFirstArchive ==
    \A i \in 1..Len(package_data) :
        globbed[i] # <<>> =>
            MetadataOf(package_data[i])
                = FirstArchiveHit(packages[i].name, globbed[i])

\* C5: the metadata of a record are those of the first archive, in discovery
\* order, whose manifests of the package give at least one field, all the
\* manifests of that archive merged in entry order with the last line of a
\* field winning; they are "Unknown" when no archive gives a field, and once
\* an archive has set them no later archive of the package changes them.
C5_FirstArchiveWins ==
    /\ []MetadataFromFirstArchive
    /\ [][pc = "archives"
            /\ package_metadata.processed_opam_file_for_metadata
          => package_metadata' = package_metadata]_vars

\* C5 witness: a record of two archives that both give a license, and not the
\* same, has the license of the first.
C5_Witness ==
    \E i \in 1..Len(package_data) :
        /\ Len(globbed[i]) = 2
        /\ \A k \in 1..2 :
              MergedManifests(packages[i].name, globbed[i][k]).license
                  # Unknown
        /\ MergedManifests(packages[i].name, globbed[i][1]).license
              # MergedManifests(packages[i].name, globbed[i][2]).license
        /\ package_data[i].license
              = MergedManifests(packages[i].name, globbed[i][1]).license

\* C10 as stated: a record of a package with an archive that cannot be read
\* has the files of its other archives and an error annotation.
C10_Original ==
    \A i \in 1..Len(package_data) :
        (\E k \in 1..Len(globbed[i]) : globbed[i][k].corrupt) =>
            /\ package_data[i].files
                  = AllCollected(SelectSeq(globbed[i],
                                     LAMBDA a : ~a.corrupt))
            /\ "error" \in DOMAIN package_data[i]

\* C10: an archive that cannot be read is skipped and the run goes on: the
\* package has its record, with the files of its other archives, those after
\* the unreadable one included; the record has an error annotation, the
\* "no processable files" one, exactly when no archive gave a file.
C10_CorruptArchiveIsSkipped ==
    /\ pc \in {"packages", "archives"} => Len(package_data) = pkgIdx - 1
    /\ \A i \in 1..Len(package_data) :
          (\E k \in 1..Len(globbed[i]) : globbed[i][k].corrupt) =>
              /\ package_data[i].files
                    = AllCollected(SelectSeq(globbed[i],
                                       LAMBDA a : ~a.corrupt))
              /\ "error" \in DOMAIN package_data[i]
                    <=> package_data[i].files = <<>>
              /\ "error" \in DOMAIN package_data[i]
                    => package_data[i].error = EmptyArchiveError

\* C10 witness: a record of an unreadable archive followed by a readable one
\* has the files of the second and no error annotation.
C10_Witness ==
    \E i \in 1..Len(package_data) :
        /\ Len(globbed[i]) = 2
        /\ globbed[i][1].corrupt
        /\ ~globbed[i][2].corrupt
        /\ package_data[i].files # <<>>
        /\ package_data[i].files = AllCollected(<<globbed[i][2]>>)
        /\ "error" \notin DOMAIN package_data[i]

\* ------------------------------------------------------ the archive reader
\* The kind of an entry by its path: "dune" for a base name dune, else what
\* follows the last dot of the base name, dots that begin it apart
KindOf(path) ==
    LET Ext(base, dots) ==
            IF dots = {} THEN <<>>
            ELSE SubSeq(base, SetMax(dots) + 1, Len(base))
        Kind(base) ==
            IF base = <<"d", "u", "n", "e">> THEN base
            ELSE Ext(base, {i \in 2..Len(base) :
                              /\ base[i] = "."
                              /\ \E j \in 1..(i - 1) : base[j] # "."})
        After(slashes) ==
            IF slashes = {} THEN Kind(path)
            ELSE Kind(SubSeq(path, SetMax(slashes) + 1, Len(path)))
    IN  After({i \in 1..Len(path) : path[i] = "/"})

\* The call the consumer gets for an entry
CallFor(e) ==
    [file_type |-> KindOf(e.path), file_path |-> e.path,
     content |-> IF e.data.utf8 THEN e.data.lines ELSE BytesRepr(e.data)]

CallsFor(entries) == [k \in 1..Len(entries) |-> CallFor(entries[k])]

\* The archive can be read: a supported suffix, and it opens
Opens(archive) ==
    /\ ~archive.corrupt
    /\ \E k \in 1..Len(archive.path) :
          SubSeq(archive.path, k, Len(archive.path))
              \in {<<".", "z", "i", "p">>, <<".", "t", "g", "z">>,
                   <<".", "t", "b", "z">>,
                   <<".", "t", "a", "r", ".", "g", "z">>,
                   <<".", "t", "a", "r", ".", "b", "z", "2">>}

IsZip(archive) ==
    /\ Len(archive.path) >= 4
    /\ SubSeq(archive.path, Len(archive.path) - 3, Len(archive.path))
          = <<".", "z", "i", "p">>

\* C9 as stated, for an archive that opens and whose entries can all be read
\* and decoded: the calls are, in archive order, those for the entries that
\* are no directory and whose kind is in the target set.
C9_Original ==
    ("calls" \in DOMAIN answer
        /\ Opens(probe.archive)
        /\ \A e \in Range(probe.archive.entries) :
              e.readable /\ e.data.utf8) =>
        answer["calls"]
            = CallsFor(SelectSeq(probe.archive.entries,
                  LAMBDA e : /\ e.etype # "dir"
                             /\ KindOf(e.path) \in probe.file_extensions))

\* C9: for an archive that opens, the calls are, in archive order, those for
\* the entries whose kind is in the target set, whose read succeeds and
\* that are, in a zip, not named as a directory and, in a tar, regular files
\* (a link or any other special member is passed over like a directory);
\* each call has the entry's kind, path and decoded content, and an archive
\* that does not open gives no call.
C9_RegularEntriesOfTargetKinds ==
    "calls" \in DOMAIN answer =>
        answer["calls"]
            = IF ~Opens(probe.archive) THEN <<>>
              ELSE CallsFor(SelectSeq(probe.archive.entries,
                      LAMBDA e :
                         /\ IF IsZip(probe.archive)
                            THEN e.path[Len(e.path)] # "/"
                            ELSE e.etype = "file"
                         /\ KindOf(e.path) \in probe.file_extensions
                         /\ e.readable))

\* C9 witness: a tar of a link and a regular file, both of a target kind,
\* gave the one call for the regular file.
C9_Witness ==
    /\ "calls" \in DOMAIN answer
    /\ Opens(probe.archive)
    /\ ~IsZip(probe.archive)
    /\ probe.archive.entries = <<EntryLink, EntryMl>>
    /\ KindOf(EntryLink.path) \in probe.file_extensions
    /\ answer["calls"] = <<CallFor(EntryMl)>>

\* The archive with its entries of base name opam named <base-name>.opam
WithNamedManifest(archive, package_base_name) ==
    [archive EXCEPT !.entries =
        [k \in 1..Len(archive.entries) |->
            IF archive.entries[k].path = <<"o", "p", "a", "m">>
            THEN [archive.entries[k] EXCEPT
                     !.path = package_base_name \o <<".", "o", "p", "a", "m">>]
            ELSE archive.entries[k]]]

\* C6 as stated: an archive whose only manifest is an entry named opam gives
\* the metadata it gives when that entry is named <base-name>.opam.
C6_BareOpamIsRead ==
    ("metadata" \in DOMAIN answer
        /\ \E k \in 1..Len(probe.archive.entries) :
              /\ probe.archive.entries[k].path = <<"o", "p", "a", "m">>
              /\ \A j \in 1..Len(probe.archive.entries) :
                    j # k => KindOf(probe.archive.entries[j].path)
                                # <<"o", "p", "a", "m">>) =>
        answer["metadata"]
            = ExtractMetadataFromArchive(
                  WithNamedManifest(probe.archive, probe.package_base_name),
                  probe.package_base_name)

\* ------------------------------------------------------------ the export
RECURSIVE ConcatRows(_)
\* The rows of the batches read in index order
ConcatRows(batches) ==
    IF batches = <<>> THEN <<>>
    ELSE Head(batches).rows \o ConcatRows(Tail(batches))

AllSaved == \A k \in 1..Len(written) : written[k].saved

\* The row is the record, column by column, with no error where the record
\* has none
RowIsRecord(row, record) ==
    /\ DOMAIN row = DOMAIN record \cup {"error"}
    /\ \A c \in DOMAIN record : row[c] = record[c]
    /\ "error" \notin DOMAIN record => row.error = None

IsMatched(archive, file_extensions, e) ==
    /\ KindOf(e.path) \in file_extensions
    /\ IF IsZip(archive) THEN e.path[Len(e.path)] # "/" ELSE e.etype = "file"

\* The text b'...' on one line
IsBytesText(content) ==
    /\ Len(content) = 1
    /\ Len(content[1]) >= 3
    /\ SubSeq(content[1], 1, 2) = <<"b", "'">>
    /\ content[1][Len(content[1])] = "'"

\* The matched entries among the first i entries whose read succeeds
ReadBefore(archive, file_extensions, i) ==
    {j \in 1..i : /\ IsMatched(archive, file_extensions, archive.entries[j])
                  /\ archive.entries[j].readable}

\* C11: in an archive that opens, no failure on an entry ends the loop: there
\* is one call for each matched entry whose read succeeds and none for one
\* whose read raises; the n-th such entry gets the n-th call, with its own
\* path and its own content, which is its text where the bytes are UTF-8 and
\* otherwise the one line b'...' that depends on the bytes alone; so an
\* entry after a failed or undecodable one is still yielded.
C11_EntryFailureIsLocal ==
    ("calls" \in DOMAIN answer /\ Opens(probe.archive)) =>
        /\ Len(answer["calls"])
              = Cardinality(ReadBefore(probe.archive, probe.file_extensions,
                                       Len(probe.archive.entries)))
        /\ \A i \in ReadBefore(probe.archive, probe.file_extensions,
                               Len(probe.archive.entries)) :
              LET Same(call, e) ==
                      /\ call.file_path = e.path
                      /\ call.file_type = KindOf(e.path)
                      /\ e.data.utf8 => call.content = e.data.lines
                      /\ ~e.data.utf8 =>
                            /\ IsBytesText(call.content)
                            /\ call.content = BytesRepr(e.data)
              IN  Same(answer["calls"][Cardinality(ReadBefore(probe.archive,
                                           probe.file_extensions, i))],
                       probe.archive.entries[i])

\* C11 witness: an entry whose read raises, followed by an entry of bytes
\* that are not UTF-8, gave the one call for the second, with its b'...'
\* text.
C11_Witness ==
    /\ "calls" \in DOMAIN answer
    /\ Opens(probe.archive)
    /\ probe.archive.entries = <<EntryBroken, EntryBinary>>
    /\ IsMatched(probe.archive, probe.file_extensions, EntryBroken)
    /\ Len(answer["calls"]) = 1
    /\ answer["calls"][1].file_path = EntryBinary.path
    /\ IsBytesText(answer["calls"][1].content)

\* ------------------------------------------------- records held in memory
\* C12 as stated: the records are handed to the writer as they are finished,
\* so the finished records held while the packages are processed are never
\* more than batch_size.
C12_RecordsAreStreamed ==
    pc \in {"packages", "archives"} => Len(package_data) <= batch_size

====
